---- MODULE Spec2Model ----
(***************************************************************************)
(* Model of excel-to-json.js: the header normaliser toCamelCase, the row   *)
(* pipeline processSheetData, the sheet selection of convertExcelToJson    *)
(* and the CLI flow of main.                                               *)
(*                                                                         *)
(* A JavaScript string that the code takes apart (a column header, a sheet *)
(* name, a property key) is a sequence of one-character strings.  A cell   *)
(* value is a record [kind, s, n].  A plain JavaScript object is a record  *)
(* [keys, vals, proto]: the own string keys in insertion order, their      *)
(* values, and what the prototype currently is.                            *)
(***************************************************************************)
EXTENDS Integers, Sequences, FiniteSets, TLC

VARIABLES
  pc,          \* position of the run: which specification, and how far
  header,      \* toCamelCase: the argument str
  cleanKey,    \* toCamelCase: the returned string
  data,        \* processSheetData: the argument data (raw rows)
  addId,       \* processSheetData: the argument addId
  camelCase,   \* processSheetData: the argument camelCase
  output,      \* processSheetData: its completion (rows, or a throw)
  file,        \* main: what excelFile names on disk
  options,     \* main: the options built from argv
  result,      \* main: what convertExcelToJson returned
  saveResult,  \* main: what saveJsonFile returned
  calls,       \* sheet names processSheetData was called for, in order
  writes,      \* number of fs.writeFile attempts
  exitCode     \* exit status of the process, -1 while it runs

vars == <<pc, header, cleanKey, data, addId, camelCase, output, file,
          options, result, saveResult, calls, writes, exitCode>>

----------------------------------------------------------------------------
(* Bounds *)

MaxLen == 4     \* longest header given to toCamelCase alone
MaxCols == 2    \* most columns of a raw row
MaxRows == 3    \* most raw rows of a sheet
MaxSheets == 2  \* most sheets of a workbook

----------------------------------------------------------------------------
(* Characters and the String.prototype methods the code calls *)

LowerCaseLetters ==
  <<"a","b","c","d","e","f","g","h","i","j","k","l","m",
    "n","o","p","q","r","s","t","u","v","w","x","y","z">>
UpperCaseLetters ==
  <<"A","B","C","D","E","F","G","H","I","J","K","L","M",
    "N","O","P","Q","R","S","T","U","V","W","X","Y","Z">>

\* the characters the model's strings use that /\s/ matches
IsWhitespace(c) == c \in {" ", "\t"}

\* one character matched by the class [\s\-_\.]
IsSeparator(c) == IsWhitespace(c) \/ c \in {"-", "_", "."}

CharToLowerCase(c) ==
  IF \E i \in 1..Len(UpperCaseLetters) : UpperCaseLetters[i] = c
  THEN LowerCaseLetters[CHOOSE i \in 1..Len(UpperCaseLetters) : UpperCaseLetters[i] = c]
  ELSE c

CharToUpperCase(c) ==
  IF \E i \in 1..Len(LowerCaseLetters) : LowerCaseLetters[i] = c
  THEN UpperCaseLetters[CHOOSE i \in 1..Len(LowerCaseLetters) : LowerCaseLetters[i] = c]
  ELSE c

toLowerCase(s) == [i \in 1..Len(s) |-> CharToLowerCase(s[i])]

toUpperCase(s) == [i \in 1..Len(s) |-> CharToUpperCase(s[i])]

\* String.prototype.trim: whitespace removed from both ends
trim(s) ==
  LET solid == {i \in 1..Len(s) : ~IsWhitespace(s[i])}
  IN IF solid = {} THEN <<>>
     ELSE SubSeq(s, CHOOSE i \in solid : \A j \in solid : i <= j,
                    CHOOSE i \in solid : \A j \in solid : j <= i)

RECURSIVE SkipWhitespace(_)
SkipWhitespace(s) ==
  IF s # <<>> /\ IsWhitespace(Head(s)) THEN SkipWhitespace(Tail(s)) ELSE s

\* .replace(/\s+/g, " "): every maximal run of whitespace becomes one space
RECURSIVE collapseSpaces(_)
collapseSpaces(s) ==
  IF s = <<>> THEN <<>>
  ELSE IF IsWhitespace(Head(s))
       THEN <<" ">> \o collapseSpaces(SkipWhitespace(Tail(s)))
       ELSE <<Head(s)>> \o collapseSpaces(Tail(s))

RECURSIVE SkipSeparators(_)
SkipSeparators(s) ==
  IF s # <<>> /\ IsSeparator(Head(s)) THEN SkipSeparators(Tail(s)) ELSE s

\* .split(/[\s\-_\.]+/): the pieces between maximal separator runs; a
\* separator at either end leaves an empty piece there, and "" gives [""]
RECURSIVE SplitFrom(_, _)
SplitFrom(rest, word) ==
  IF rest = <<>> THEN <<word>>
  ELSE IF IsSeparator(Head(rest))
       THEN <<word>> \o SplitFrom(SkipSeparators(rest), <<>>)
       ELSE SplitFrom(Tail(rest), Append(word, Head(rest)))

split(s) == SplitFrom(s, <<>>)

\* .join(""): the words one after another
RECURSIVE join(_)
join(words) == IF words = <<>> THEN <<>> ELSE Head(words) \o join(Tail(words))

\* camelWord without the toLowerCase() of word.slice(1)
camelWordKeepsRest(word, index) ==
  IF index = 0 THEN toLowerCase(word)
  ELSE toUpperCase(SubSeq(word, 1, 1)) \o SubSeq(word, 2, Len(word))

\* the .map callback of toCamelCase; index is 0-based as in the code
camelWord(word, index) ==
  IF index = 0 THEN toLowerCase(word)
  ELSE toUpperCase(SubSeq(word, 1, 1)) \o toLowerCase(SubSeq(word, 2, Len(word)))

\* .map(...).join("") over the words that passed the filter
camelJoin(words) == join([i \in 1..Len(words) |-> camelWord(words[i], i - 1)])

toCamelCase(str) ==
  camelJoin(SelectSeq(split(collapseSpaces(trim(str))), LAMBDA word : Len(word) > 0))

\* the else branch of processSheetData's key cleaning
cleanSpaces(key) == collapseSpaces(trim(key))

----------------------------------------------------------------------------
(* Cell values *)

Null == [kind |-> "null", s |-> "", n |-> 0]
Undefined == [kind |-> "undefined", s |-> "", n |-> 0]
Str(s) == [kind |-> "string", s |-> s, n |-> 0]
Num(n) == [kind |-> "number", s |-> "", n |-> n]
Bool(b) == [kind |-> "boolean", s |-> "", n |-> IF b THEN 1 ELSE 0]
\* a Date whose time value is h hours after 1970-01-01T00:00Z
DateOf(h) == [kind |-> "date", s |-> "", n |-> h]
\* a Date whose time value is NaN (new Date("x"), new Date(NaN))
InvalidDate == [kind |-> "date", s |-> "Invalid Date", n |-> 0]

\* options.sheet: absent from the options, or a string
NoSheet == [given |-> FALSE, name |-> <<>>]
Sheet(name) == [given |-> TRUE, name |-> name]

\* error.message: which error it is and the names the text carries
ErrorMessage(kind, requested, available) ==
  [kind |-> kind, requested |-> requested, available |-> available]

\* what a call ends with: a returned value, or a thrown exception
Return(v) == [threw |-> FALSE, value |-> v]
Throw(message) == [threw |-> TRUE, value |-> message]

Pad(n, width) ==
  LET digits == ToString(n)
      zeros == [k \in 0..6 |-> CASE k = 0 -> "" [] k = 1 -> "0" [] k = 2 -> "00"
                                 [] k = 3 -> "000" [] k = 4 -> "0000"
                                 [] k = 5 -> "00000" [] k = 6 -> "000000"]
  IN IF Len(digits) >= width THEN digits ELSE zeros[width - Len(digits)] \o digits

\* year, month and day (UTC, proleptic Gregorian) of a day number, by the
\* usual era arithmetic: era is the 400-year cycle, doe the day of the era,
\* yoe the year of the era, doy the day of the year counted from 1 March,
\* mp the month counted from March
CivilFromMonth(era, yoe, doy, mp) ==
  <<yoe + era * 400 + (IF mp >= 10 THEN 1 ELSE 0),
    IF mp < 10 THEN mp + 3 ELSE mp - 9,
    doy - (153 * mp + 2) \div 5 + 1>>

CivilFromDayOfYear(era, yoe, doy) == CivilFromMonth(era, yoe, doy, (5 * doy + 2) \div 153)

CivilFromYearOfEra(era, doe, yoe) ==
  CivilFromDayOfYear(era, yoe, doe - (365 * yoe + yoe \div 4 - yoe \div 100))

CivilFromDayOfEra(era, doe) ==
  CivilFromYearOfEra(era, doe,
    (doe - doe \div 1460 + doe \div 36524 - doe \div 146096) \div 365)

CivilFromShifted(z) == CivilFromDayOfEra(z \div 146097, z - (z \div 146097) * 146097)

CivilFromDays(days) == CivilFromShifted(days + 719468)

\* the year of an ISO date text: four digits, or a sign and six digits
IsoYear(y) ==
  IF y >= 0 /\ y <= 9999 THEN Pad(y, 4)
  ELSE IF y < 0 THEN "-" \o Pad(-y, 6) ELSE "+" \o Pad(y, 6)

IsoDate(ymd) == IsoYear(ymd[1]) \o "-" \o Pad(ymd[2], 2) \o "-" \o Pad(ymd[3], 2)

\* Date.prototype.toISOString: <<date part, time part>> of the text
\* date "T" time; RangeError when the time value is NaN
toISOString(value) ==
  IF value.s = "Invalid Date"
  THEN Throw(ErrorMessage("Invalid time value", NoSheet, <<>>))
  ELSE Return(<<IsoDate(CivilFromDays(value.n \div 24)),
                Pad(value.n % 24, 2) \o ":00:00.000Z">>)

----------------------------------------------------------------------------
(* Plain JavaScript objects *)

EmptyObject == [keys |-> <<>>, vals |-> <<>>, proto |-> "Object.prototype"]

Digits == <<"0","1","2","3","4","5","6","7","8","9">>

IsDigit(c) == \E i \in 1..Len(Digits) : Digits[i] = c

RECURSIVE DigitsToNumber(_)
DigitsToNumber(key) ==
  IF key = <<>> THEN 0
  ELSE 10 * DigitsToNumber(SubSeq(key, 1, Len(key) - 1))
       + (CHOOSE i \in 1..Len(Digits) : Digits[i] = key[Len(key)]) - 1

\* an array index: the canonical decimal text of an integer in 0..2^32-2.
\* Every canonical text of at most nine digits is one; the keys of the
\* model are shorter than ten characters.
IsArrayIndex(key) ==
  /\ Len(key) >= 1 /\ Len(key) <= 9
  /\ \A i \in 1..Len(key) : IsDigit(key[i])
  /\ (Len(key) > 1 => key[1] # "0")

\* [[OwnPropertyKeys]]: array indices in ascending numeric order, then the
\* other string keys in the order they were created
\* how many of the array indices are smaller than key
IndexRank(indices, key) ==
  Cardinality({j \in 1..Len(indices) : DigitsToNumber(indices[j]) < DigitsToNumber(key)})

AscendingIndices(indices) ==
  [i \in 1..Len(indices) |->
     indices[CHOOSE j \in 1..Len(indices) : IndexRank(indices, indices[j]) = i - 1]]

OwnKeys(obj) ==
  AscendingIndices(SelectSeq(obj.keys, IsArrayIndex))
    \o SelectSeq(obj.keys, LAMBDA k : ~IsArrayIndex(k))

HasOwn(obj, key) == \E i \in 1..Len(obj.keys) : obj.keys[i] = key

\* obj[key] for an own key
JsGet(obj, key) == obj.vals[CHOOSE i \in 1..Len(obj.keys) : obj.keys[i] = key]

ProtoKey == <<"_","_","p","r","o","t","o","_","_">>

\* obj[key] = val on a plain object.  vtype is "null", "object" or
\* "primitive".  The key __proto__ reaches the setter inherited from
\* Object.prototype, which changes the prototype for an object or null and
\* does nothing for a primitive; it creates no own property.
JsSet(obj, key, val, vtype) ==
  IF key = ProtoKey /\ obj.proto # "null"
  THEN IF vtype = "primitive" THEN obj
       ELSE [obj EXCEPT !.proto = IF vtype = "null" THEN "null" ELSE "object"]
  ELSE IF HasOwn(obj, key)
       THEN [obj EXCEPT !.vals[CHOOSE i \in 1..Len(obj.keys) : obj.keys[i] = key] = val]
       ELSE [obj EXCEPT !.keys = Append(@, key), !.vals = Append(@, val)]

\* Object.values(obj)
ValuesAt(obj, ks) == [i \in 1..Len(ks) |-> JsGet(obj, ks[i])]

ObjectValues(obj) == ValuesAt(obj, OwnKeys(obj))

----------------------------------------------------------------------------
(* processSheetData *)

IdKey == <<"i","d">>

\* the callback of data.filter: some cell is not null, undefined or ""
IsNotEmptyCell(cell) == cell # Null /\ cell # Undefined /\ cell # Str("")

SomeCell(cells) == \E i \in 1..Len(cells) : IsNotEmptyCell(cells[i])

\* the filter callback with .every in place of .some
EveryCell(cells) == \A i \in 1..Len(cells) : IsNotEmptyCell(cells[i])

IsNotEmptyRowEvery(row) == EveryCell(ObjectValues(row))

IsNotEmptyRow(row) == SomeCell(ObjectValues(row))

\* the clean column name of one raw key
CleanKeyOf(key, camel) == IF camel THEN toCamelCase(key) ELSE cleanSpaces(key)

\* value.toISOString().split("T")[0], or the exception of toISOString
DateText(iso) == IF iso.threw THEN iso ELSE Return(Str(iso.value[1]))

\* the value conversion of one cell: a completion
ConvertValue(value) ==
  IF value.kind = "date" THEN DateText(toISOString(value))
  ELSE IF value = Null \/ value = Undefined \/ value = Str("")
       THEN Return(Null)
       ELSE Return(value)

\* the body of `for (let key in row)`, over the keys still to visit;
\* CleanColumn is one pass of it, for the clean key ck and the converted
\* value conv of the first of those keys
RECURSIVE CleanColumns(_, _, _, _)
RECURSIVE CleanColumn(_, _, _, _, _, _)
CleanColumn(row, keys, cleanRow, camel, ck, conv) ==
  IF ck = <<>> THEN CleanColumns(row, Tail(keys), cleanRow, camel)
  ELSE IF conv.threw THEN conv
  ELSE CleanColumns(row, Tail(keys),
                    JsSet(cleanRow, ck, conv.value,
                          IF conv.value = Null THEN "null" ELSE "primitive"),
                    camel)

CleanColumns(row, keys, cleanRow, camel) ==
  IF keys = <<>> THEN Return(cleanRow)
  ELSE CleanColumn(row, keys, cleanRow, camel,
                   CleanKeyOf(Head(keys), camel), ConvertValue(JsGet(row, Head(keys))))

\* the callback of filteredData.map; index is 0-based
CleanRow(row, index, withId, camel) ==
  CleanColumns(row, OwnKeys(row),
               IF withId THEN JsSet(EmptyObject, IdKey, Num(index), "primitive")
               ELSE EmptyObject,
               camel)

\* a missing argument (undefined or null) as against an array of rows
NoData == [missing |-> TRUE, rows |-> <<>>]
RawData(rows) == [missing |-> FALSE, rows |-> rows]

\* filteredData.map(...): the completion of the callback for every row
MapRows(filteredData, withId, camel) ==
  [i \in 1..Len(filteredData) |-> CleanRow(filteredData[i], i - 1, withId, camel)]

\* the first exception a callback threw, or else the array of clean rows
MapCompletion(mapped) ==
  IF \E i \in 1..Len(mapped) : mapped[i].threw
  THEN mapped[CHOOSE i \in 1..Len(mapped) :
                mapped[i].threw /\ \A j \in 1..(i - 1) : ~mapped[j].threw]
  ELSE Return([i \in 1..Len(mapped) |-> mapped[i].value])

processSheetData(d, withId, camel) ==
  IF d.missing \/ Len(d.rows) = 0 THEN Return(<<>>)
  ELSE MapCompletion(MapRows(SelectSeq(d.rows, IsNotEmptyRow), withId, camel))

----------------------------------------------------------------------------
(* The variables of the parts a specification does not run *)

\* saveJsonFile has not returned
NotSaved == [called |-> FALSE, success |-> FALSE]

IdleCamel == header = <<>> /\ cleanKey = <<>>

IdleProcess == data = NoData /\ addId = TRUE /\ camelCase = TRUE /\ output = <<>>

IdleMain ==
  /\ file = <<>> /\ options = <<>> /\ result = <<>> /\ saveResult = NotSaved
  /\ calls = <<>> /\ writes = 0 /\ exitCode = -1

----------------------------------------------------------------------------
(* processSheetData on its own: the raw rows it is given *)

\* column headers: plain; normalising to "id" under camelCase; empty once
\* trimmed; empty under camelCase only; the name of the prototype accessor
HeaderSet == {<<"a">>, <<"I","D">>, <<" ">>, <<"_">>, ProtoKey}

\* cell values: the three empty ones, a string, a number, a boolean, a date
\* (2024-03-15T23:00Z) and a date with no time value
ValueSet == {Null, Undefined, Str(""), Str("x"), Num(500), Bool(FALSE),
             DateOf(475151), InvalidDate}

RECURSIVE TuplesUpTo(_, _)
TuplesUpTo(S, n) ==
  IF n = 0 THEN {<<>>}
  ELSE LET shorter == TuplesUpTo(S, n - 1)
       IN shorter \cup {Append(t, x) : t \in {u \in shorter : Len(u) = n - 1}, x \in S}

IsInjective(t) == \A i, j \in 1..Len(t) : t[i] = t[j] => i = j

\* every raw row of at most MaxCols distinct headers
RawRows ==
  {[keys |-> ks, vals |-> vs, proto |-> "Object.prototype"] :
     <<ks, vs>> \in {kv \in TuplesUpTo(HeaderSet, MaxCols) \X TuplesUpTo(ValueSet, MaxCols) :
                       Len(kv[1]) = Len(kv[2]) /\ IsInjective(kv[1])}}

\* the rows that sheets of several rows are built from
SheetRows ==
  {[keys |-> << <<"a">>, <<"I","D">> >>, vals |-> <<x, y>>, proto |-> "Object.prototype"] :
     x \in {Null, Str("x")}, y \in {Str(""), Num(500)}}
  \cup {[keys |-> << <<"a">> >>, vals |-> <<x>>, proto |-> "Object.prototype"] :
          x \in {Undefined, Bool(FALSE), Str("")}}
  \cup {EmptyObject}

DataSet ==
  {NoData} \cup {RawData(<<row>>) : row \in RawRows}
           \cup {RawData(rows) : rows \in {t \in TuplesUpTo(SheetRows, MaxRows) : Len(t) # 1}}

InitProcess ==
  /\ pc = "process"
  /\ data \in DataSet
  /\ addId \in BOOLEAN
  /\ camelCase \in BOOLEAN
  /\ output = <<>>
  /\ IdleCamel
  /\ IdleMain

CallProcessSheetData ==
  /\ pc = "process"
  /\ pc' = "processed"
  /\ output' = processSheetData(data, addId, camelCase)
  /\ UNCHANGED <<header, cleanKey, data, addId, camelCase, file, options,
                 result, saveResult, calls, writes, exitCode>>

SpecProcess == InitProcess /\ [][CallProcessSheetData]_vars

----------------------------------------------------------------------------
(* convertExcelToJson *)

\* the object of the catch branch
Failure(error) ==
  [success |-> FALSE, error |-> error, shape |-> "none", data |-> <<>>,
   hasSheets |-> FALSE, sheets |-> <<>>]

\* the object returned for options.listSheets
SheetList(sheetNames) ==
  [success |-> TRUE, error |-> <<>>, shape |-> "none", data |-> <<>>,
   hasSheets |-> TRUE, sheets |-> sheetNames]

\* the object returned after a conversion; shape tells whether data is the
\* row array of one sheet or the object keyed by sheet name
Converted(shape, d, sheetNames) ==
  [success |-> TRUE, error |-> <<>>, shape |-> shape, data |-> d,
   hasSheets |-> TRUE, sheets |-> sheetNames]

\* workbook.Sheets[sheetName] through XLSX.utils.sheet_to_json: the raw
\* rows of the sheet of that name
SheetToJson(f, sheetName) ==
  f.Sheets[CHOOSE i \in 1..Len(f.SheetNames) : f.SheetNames[i] = sheetName]

\* sheetNames.forEach of the allSheets branch, over the names still to
\* visit: the completion, and the sheets processSheetData was called for.
\* StoreSheet is one pass of it, for the rows processSheetData gave.
RECURSIVE ConvertAllSheets(_, _, _, _, _, _)
RECURSIVE StoreSheet(_, _, _, _, _, _, _)
StoreSheet(f, names, res, withId, camel, called, rows) ==
  IF rows.threw
  THEN [completion |-> rows, calls |-> Append(called, Head(names))]
  ELSE ConvertAllSheets(f, Tail(names), JsSet(res, Head(names), rows.value, "object"),
                        withId, camel, Append(called, Head(names)))

ConvertAllSheets(f, names, res, withId, camel, called) ==
  IF names = <<>> THEN [completion |-> Return(res), calls |-> called]
  ELSE StoreSheet(f, names, res, withId, camel, called,
                  processSheetData(SheetToJson(f, Head(names)), withId, camel))

\* the end of the allSheets branch: the returned object
AllSheetsResult(all, sheetNames) ==
  IF all.completion.threw THEN all
  ELSE [completion |-> Return(Converted("mapping", all.completion.value, sheetNames)),
        calls |-> all.calls]

\* options.sheet || sheetNames[0]
TargetSheet(o, sheetNames) ==
  IF o.sheet.given /\ o.sheet.name # <<>> THEN o.sheet
  ELSE IF Len(sheetNames) > 0 THEN Sheet(sheetNames[1])
  ELSE NoSheet

\* sheetNames.includes(targetSheet)
Includes(sheetNames, targetSheet) ==
  targetSheet.given /\ \E i \in 1..Len(sheetNames) : sheetNames[i] = targetSheet.name

\* the end of the single-sheet branch: the returned object
OneSheetResult(rows, sheetName, sheetNames) ==
  IF rows.threw THEN [completion |-> rows, calls |-> <<sheetName>>]
  ELSE [completion |-> Return(Converted("array", rows.value, sheetNames)),
        calls |-> <<sheetName>>]

\* the single-sheet branch
ConvertOneSheet(f, targetSheet, withId, camel) ==
  IF ~Includes(f.SheetNames, targetSheet)
  THEN [completion |-> Throw(ErrorMessage("SheetNotFound", targetSheet, f.SheetNames)),
        calls |-> <<>>]
  ELSE OneSheetResult(processSheetData(SheetToJson(f, targetSheet.name), withId, camel),
                      targetSheet.name, f.SheetNames)

\* the try block with the listSheets test moved behind the conversion
TryConvertListsLast(f, o) ==
  IF ~f.exists
  THEN [completion |-> Throw(ErrorMessage("FileNotFound", NoSheet, <<>>)), calls |-> <<>>]
  ELSE IF ~f.readable
  THEN [completion |-> Throw(ErrorMessage("ReadFailed", NoSheet, <<>>)), calls |-> <<>>]
  ELSE IF o.allSheets
  THEN AllSheetsResult(ConvertAllSheets(f, f.SheetNames, EmptyObject,
                                        ~o.noId, ~o.noCamelCase, <<>>),
                       f.SheetNames)
  ELSE ConvertOneSheet(f, TargetSheet(o, f.SheetNames), ~o.noId, ~o.noCamelCase)

\* the body of the try block: its completion (a returned object or a
\* thrown error) and the sheets processSheetData was called for
TryConvert(f, o) ==
  IF ~f.exists
  THEN [completion |-> Throw(ErrorMessage("FileNotFound", NoSheet, <<>>)), calls |-> <<>>]
  ELSE IF ~f.readable
  THEN [completion |-> Throw(ErrorMessage("ReadFailed", NoSheet, <<>>)), calls |-> <<>>]
  ELSE IF o.listSheets
  THEN [completion |-> Return(SheetList(f.SheetNames)), calls |-> <<>>]
  ELSE IF o.allSheets
  THEN AllSheetsResult(ConvertAllSheets(f, f.SheetNames, EmptyObject,
                                        ~o.noId, ~o.noCamelCase, <<>>),
                       f.SheetNames)
  ELSE ConvertOneSheet(f, TargetSheet(o, f.SheetNames), ~o.noId, ~o.noCamelCase)

\* the function without its catch branch: the exception goes to the caller
CatchErrorRethrows(try) == try

\* catch (error) { return { success: false, error: error.message } }
CatchError(try) ==
  IF try.completion.threw
  THEN [completion |-> Return(Failure(try.completion.value)), calls |-> try.calls]
  ELSE try

convertExcelToJson(f, o) == CatchError(TryConvert(f, o))

----------------------------------------------------------------------------
(* main *)

SheetNameSet == {<<"A">>, <<"B">>, <<"2">>, <<"1">>}

\* what sheet_to_json yields for a sheet: no rows; two rows of data around
\* an empty one; a row holding a date with no time value
SheetDataSet ==
  {RawData(<<>>),
   RawData(<<[keys |-> << <<"a">>, <<"I","D">> >>, vals |-> <<Str("x"), Num(500)>>,
              proto |-> "Object.prototype"],
             [keys |-> << <<"a">>, <<"I","D">> >>, vals |-> <<Null, Null>>,
              proto |-> "Object.prototype"],
             [keys |-> << <<"a">>, <<"I","D">> >>, vals |-> <<Null, Str("x")>>,
              proto |-> "Object.prototype"]>>),
   RawData(<<[keys |-> << <<"a">> >>, vals |-> <<InvalidDate>>,
              proto |-> "Object.prototype"]>>)}

\* what excelFile names: nothing, a file XLSX.readFile cannot read, or a
\* workbook of at most MaxSheets sheets with distinct names
FileSet ==
  {[exists |-> FALSE, readable |-> FALSE, SheetNames |-> <<>>, Sheets |-> <<>>],
   [exists |-> TRUE, readable |-> FALSE, SheetNames |-> <<>>, Sheets |-> <<>>]}
  \cup {[exists |-> TRUE, readable |-> TRUE, SheetNames |-> ns, Sheets |-> ds] :
          <<ns, ds>> \in {nd \in TuplesUpTo(SheetNameSet, MaxSheets) \X TuplesUpTo(SheetDataSet, MaxSheets) :
                            Len(nd[1]) = Len(nd[2]) /\ IsInjective(nd[1])}}

\* the options main passes on that the conversion reads (header goes to
\* sheet_to_json unread; output and pretty only shape the file written)
OptionsSet ==
  [sheet : {NoSheet, Sheet(<<>>), Sheet(<<"A">>), Sheet(<<"2">>), Sheet(<<"Q">>)},
   allSheets : BOOLEAN, listSheets : BOOLEAN, noId : BOOLEAN, noCamelCase : BOOLEAN]

Init ==
  /\ pc = "main"
  /\ file \in FileSet
  /\ options \in OptionsSet
  /\ result = <<>>
  /\ saveResult = NotSaved
  /\ calls = <<>>
  /\ writes = 0
  /\ exitCode = -1
  /\ IdleCamel
  /\ IdleProcess

\* main up to `await saveJsonFile(...)`: the conversion, the exit on a
\* failed conversion, the sheet listing, and the start of fs.writeFile.
\* An exception out of convertExcelToJson would reach main().catch.
AfterConvert(conv) ==
  /\ calls' = conv.calls
  /\ IF conv.completion.threw
     THEN /\ result' = result
          /\ pc' = "fatal" /\ exitCode' = 1 /\ writes' = writes
     ELSE /\ result' = conv.completion.value
          /\ IF ~conv.completion.value.success
             THEN pc' = "exited" /\ exitCode' = 1 /\ writes' = writes
             ELSE IF options.listSheets
             THEN pc' = "done" /\ exitCode' = 0 /\ writes' = writes
             ELSE pc' = "writing" /\ exitCode' = exitCode /\ writes' = writes + 1

MainConvert ==
  /\ pc = "main"
  /\ AfterConvert(convertExcelToJson(file, options))
  /\ UNCHANGED <<header, cleanKey, data, addId, camelCase, output, file,
                 options, saveResult>>

\* fs.writeFile resolves: saveJsonFile returns success, main prints and ends
WriteFileResolves ==
  /\ pc = "writing"
  /\ saveResult' = [called |-> TRUE, success |-> TRUE]
  /\ pc' = "done"
  /\ exitCode' = 0
  /\ UNCHANGED <<header, cleanKey, data, addId, camelCase, output, file,
                 options, result, calls, writes>>

\* fs.writeFile rejects: saveJsonFile returns the failure, main exits 1
WriteFileRejects ==
  /\ pc = "writing"
  /\ saveResult' = [called |-> TRUE, success |-> FALSE]
  /\ pc' = "exited"
  /\ exitCode' = 1
  /\ UNCHANGED <<header, cleanKey, data, addId, camelCase, output, file,
                 options, result, calls, writes>>

Next == MainConvert \/ WriteFileResolves \/ WriteFileRejects

Spec == Init /\ [][Next]_vars

----------------------------------------------------------------------------
(* toCamelCase on its own *)

Alphabet == {"a", "B", " ", "-", "_", "."}

RECURSIVE StringsUpTo(_)
StringsUpTo(n) ==
  IF n = 0 THEN {<<>>}
  ELSE LET shorter == StringsUpTo(n - 1)
       IN shorter \cup {Append(s, c) : s \in {t \in shorter : Len(t) = n - 1}, c \in Alphabet}


InitCamel ==
  /\ pc = "camel"
  /\ header \in StringsUpTo(MaxLen)
  /\ cleanKey = <<>>
  /\ IdleProcess
  /\ IdleMain

CallToCamelCase ==
  /\ pc = "camel"
  /\ pc' = "camelDone"
  /\ cleanKey' = toCamelCase(header)
  /\ UNCHANGED <<header, data, addId, camelCase, output, file, options,
                 result, saveResult, calls, writes, exitCode>>

SpecCamel == InitCamel /\ [][CallToCamelCase]_vars

----------------------------------------------------------------------------
(* Properties of toCamelCase (under SpecCamel) *)

\* position i of s is in the first maximal run of non-separator characters
InFirstToken(s, i) ==
  /\ ~IsSeparator(s[i])
  /\ \A j \in 1..(i - 1) : IsSeparator(s[j]) => \A k \in 1..j : IsSeparator(s[k])

\* position i of s starts a maximal run of non-separator characters
StartsToken(s, i) == ~IsSeparator(s[i]) /\ (i = 1 \/ IsSeparator(s[i - 1]))

TokenPositions(s) == {i \in 1..Len(s) : ~IsSeparator(s[i])}

NthOf(P, k) == CHOOSE i \in P : Cardinality({j \in P : j < i}) = k - 1

\* the tokens of s one after another: the first in lower case, each later
\* one with its first character in upper case and the rest in lower case
CamelOfTokens(s) ==
  [k \in 1..Cardinality(TokenPositions(s)) |->
     IF ~InFirstToken(s, NthOf(TokenPositions(s), k))
        /\ StartsToken(s, NthOf(TokenPositions(s), k))
     THEN CharToUpperCase(s[NthOf(TokenPositions(s), k)])
     ELSE CharToLowerCase(s[NthOf(TokenPositions(s), k)])]

\* C6: toCamelCase returns the tokens of the header (its maximal runs of
\* non-separator characters) joined, the first lower-cased and each later
\* one capitalised; the result holds no separator and is empty exactly when
\* the header has no non-separator character.
C6_CamelCaseOfTokens ==
  pc = "camelDone" =>
    /\ cleanKey = CamelOfTokens(header)
    /\ \A i \in 1..Len(cleanKey) : ~IsSeparator(cleanKey[i])
    /\ (cleanKey = <<>>) <=> (TokenPositions(header) = {})

C6_Witness ==
  pc = "camelDone" /\ header = <<"B", "-", "a", "B">> /\ cleanKey = <<"b", "A", "b">>

----------------------------------------------------------------------------
(* Properties of processSheetData (under SpecProcess) *)

IsEmptyValue(v) == v.kind \in {"null", "undefined"} \/ (v.kind = "string" /\ v.s = "")

AllValuesEmpty(row) == \A i \in 1..Len(row.vals) : IsEmptyValue(row.vals[i])

\* the positions in data of the rows that are not empty
Retained == {i \in 1..Len(data.rows) : ~AllValuesEmpty(data.rows[i])}

\* the raw row behind the k-th output row
RawRowOf(k) == data.rows[NthOf(Retained, k)]

\* C1: with addId, the call returns one row per retained row and their id
\* fields are 0, 1, ..., N-1 in output order, whatever the headers.
C1_IdsDense ==
  (pc = "processed" /\ addId /\ ~output.threw) =>
    /\ Len(output.value) = Cardinality(Retained)
    /\ \A k \in 1..Len(output.value) :
         /\ HasOwn(output.value[k], IdKey)
         /\ JsGet(output.value[k], IdKey) = Num(k - 1)

\* C2: a row is dropped exactly when all its values are null, undefined or
\* ""; the rows returned are the clean rows of the retained rows, one each
\* and in their input order; empty or missing data gives the empty array.
\* The call returns no rows only when it throws, and then a retained row
\* holds a date without a time value.
C2_KeepsNonEmptyRowsInOrder ==
  pc = "processed" =>
    /\ (data.missing \/ data.rows = <<>>) => output = Return(<<>>)
    /\ ~output.threw =>
         /\ Len(output.value) = Cardinality(Retained)
         /\ \A k \in 1..Len(output.value) :
              output.value[k] = CleanRow(RawRowOf(k), k - 1, addId, camelCase).value
    /\ output.threw =>
         \E i \in Retained : \E j \in 1..Len(data.rows[i].vals) :
           data.rows[i].vals[j] = InvalidDate

C2_Witness ==
  /\ pc = "processed" /\ ~output.threw
  /\ Len(data.rows) = 3 /\ Retained = {1, 3} /\ Len(output.value) = 2

\* C7: no output row has the key ""; every raw column whose header
\* normalises to a non-empty key is in its output row under that key.
C7_ColumnsKept ==
  (pc = "processed" /\ ~output.threw) =>
    \A k \in 1..Len(output.value) :
      /\ ~HasOwn(output.value[k], <<>>)
      /\ \A j \in 1..Len(RawRowOf(k).keys) :
           CleanKeyOf(RawRowOf(k).keys[j], camelCase) # <<>>
             => HasOwn(output.value[k], CleanKeyOf(RawRowOf(k).keys[j], camelCase))

\* the value the claim gives for a raw cell value
ExpectedValue(v) ==
  IF IsEmptyValue(v) THEN Null
  ELSE IF v = DateOf(475151) THEN Str("2024-03-15")
  ELSE v

\* the key at position p of ks is the last of ks to have its clean key
LastWriter(ks, p) ==
  \A q \in (p + 1)..Len(ks) : CleanKeyOf(ks[q], camelCase) # CleanKeyOf(ks[p], camelCase)

\* C8: the conversion never throws; every output value is a string, a
\* number, a boolean or null; a column of the output holds null for an
\* empty cell, the UTC date text for a date and the cell itself otherwise.
C8_CoercionTotal ==
  pc = "processed" =>
    /\ ~output.threw
    /\ \A k \in 1..Len(output.value) :
         /\ \A p \in 1..Len(output.value[k].vals) :
              output.value[k].vals[p].kind \in {"string", "number", "boolean", "null"}
         /\ \A p \in 1..Len(OwnKeys(RawRowOf(k))) :
              (/\ HasOwn(output.value[k], CleanKeyOf(OwnKeys(RawRowOf(k))[p], camelCase))
               /\ LastWriter(OwnKeys(RawRowOf(k)), p))
              => JsGet(output.value[k], CleanKeyOf(OwnKeys(RawRowOf(k))[p], camelCase))
                   = ExpectedValue(JsGet(RawRowOf(k), OwnKeys(RawRowOf(k))[p]))

----------------------------------------------------------------------------
(* Properties of convertExcelToJson and main (under Spec) *)

\* XLSX.readFile gave a workbook
Readable == file.exists /\ file.readable

InWorkbook(name) == \E i \in 1..Len(file.SheetNames) : file.SheetNames[i] = name

\* C3: in single-sheet mode over a workbook with sheets, a given sheet
\* that is not in the workbook fails with the requested and the available
\* names and processes nothing, a given sheet that is in it is the one
\* processed, the first sheet is processed only when none is given, and
\* data is a row array on success.
C3_SheetSelection ==
  (pc # "main" /\ Readable /\ ~options.allSheets /\ ~options.listSheets
     /\ Len(file.SheetNames) > 0) =>
    /\ (options.sheet.given /\ ~InWorkbook(options.sheet.name)) =>
         /\ ~result.success
         /\ result.error = ErrorMessage("SheetNotFound", options.sheet, file.SheetNames)
         /\ calls = <<>>
    /\ (options.sheet.given /\ InWorkbook(options.sheet.name)) =>
         calls = <<options.sheet.name>>
    /\ ~options.sheet.given => calls = <<file.SheetNames[1]>>
    /\ result.success => result.shape = "array"

\* C4: a workbook without sheets is a failure unless sheets are listed.
C4_EmptyWorkbookFails ==
  (pc # "main" /\ Readable /\ file.SheetNames = <<>> /\ ~options.listSheets) =>
    ~result.success

\* C5: with allSheets the data is an object whose keys are the sheet names
\* in workbook order, each holding what processSheetData gives for the rows
\* of that sheet alone.
C5_AllSheetsInWorkbookOrder ==
  (pc # "main" /\ Readable /\ options.allSheets /\ ~options.listSheets
     /\ result.success) =>
    /\ result.shape = "mapping"
    /\ OwnKeys(result.data) = file.SheetNames
    /\ \A i \in 1..Len(file.SheetNames) :
         JsGet(result.data, file.SheetNames[i])
           = processSheetData(file.Sheets[i], ~options.noId, ~options.noCamelCase).value

\* C9: listing the sheets of a workbook succeeds whatever sheet and
\* allSheets are, returns the sheet names as they are and no data, calls
\* processSheetData for no sheet, and writes no file.
C9_ListSheetsReadsOnly ==
  (pc # "main" /\ Readable /\ options.listSheets) =>
    /\ result.success
    /\ result.hasSheets /\ result.sheets = file.SheetNames
    /\ result.shape = "none"
    /\ calls = <<>>
    /\ writes = 0
    /\ pc = "done"

C9_Witness ==
  /\ pc = "done" /\ options.listSheets /\ options.allSheets
  /\ options.sheet = Sheet(<<"Q">>)
  /\ file.SheetNames = << <<"A">>, <<"2">> >>

\* C10: no exception leaves convertExcelToJson; a failed conversion is an
\* object without data, is followed by no write and has ended the run with
\* exit status 1; a write is attempted only after a successful conversion;
\* a failed save has ended the run with exit status 1.
C10_FailuresExitNonZero ==
  /\ pc # "fatal"
  /\ (pc # "main" /\ ~result.success) =>
       result.shape = "none" /\ writes = 0 /\ pc = "exited" /\ exitCode = 1
  /\ writes > 0 => (pc # "main" /\ result.success /\ ~options.listSheets)
  /\ (saveResult.called /\ ~saveResult.success) => (pc = "exited" /\ exitCode = 1)
  /\ pc = "done" => (result.success /\ exitCode = 0)

C10_Witness ==
  /\ pc = "exited" /\ exitCode = 1 /\ ~result.success
  /\ result.error.kind = "Invalid time value"
  /\ calls # <<>>

====
